---- MODULE Spec2Model ----
(***************************************************************************)
(* Model of the SGP30 gas-sensor driver (src/sgp30/sgp30.py).              *)
(*                                                                         *)
(* Three specifications share the module's variables:                      *)
(*   Spec       the sensor session: construction, get_measurement,         *)
(*              get_sensor_info, get_iaq_baseline,                         *)
(*              set_abs_humidity_compensation, soft_reset and close, with  *)
(*              a discrete clock and a bus whose transfers may fail;       *)
(*   SpecCrc    crc_calc applied to every pair of bytes;                   *)
(*   SpecCodec  the reply decoders applied to replies drawn from bounded   *)
(*              sets.                                                      *)
(***************************************************************************)
EXTENDS Integers, Sequences, FiniteSets, TLC

VARIABLES
    now,      \* time(): the wall clock, in ticks
    tracker,  \* self.__tracker
    bus,      \* self.__bus: "none" | "open" | "closed"
    pc,       \* position of the (single) caller inside the driver
    wake,     \* earliest tick at which the sleep in progress may return
    ret,      \* outcome of the last completed call
    buslog,   \* every transfer the driver handed to the bus, in order
    call,     \* bookkeeping of the call in progress / last completed
    ncalls,   \* number of API calls started so far
    mwrites,  \* clock readings of the last two Measure IAQ writes that succeeded
    fn,       \* SpecCrc / SpecCodec: the function that was applied
    arg,      \* SpecCrc / SpecCodec: its input bytes
    out       \* SpecCrc / SpecCodec: its result

vars == <<now, tracker, bus, pc, wake, ret, buslog, call, ncalls, mwrites, fn, arg, out>>
sessionVars == <<now, tracker, bus, pc, wake, ret, buslog, call, ncalls, mwrites>>
codecVars == <<fn, arg, out>>

----------------------------------------------------------------------------
(* Bounds of the model.                                                    *)

\* ticks of the discrete clock per second
TicksPerSecond == 2
\* seconds of clock the session is followed for after it starts
Horizon == 3
\* API calls made on one session
MaxCalls == 2

----------------------------------------------------------------------------
(* Program constants (src/sgp30/sgp30.py lines 11-31).                     *)

I2C_ADDRESS == 88
REG_BASE == 0
CMD_HEAD == 32
CMD_IAQ_INIT == 3
CMD_MEASURE_IAQ == 8
CMD_GET_IAQ_BASELINE_mut == CMD_IAQ_INIT

CMD_GET_IAQ_BASELINE == 21
CMD_SET_ABS_HUMI == 97

CMD_GET_FEATURE_SET_mut == CMD_MEASURE_IAQ

CMD_GET_FEATURE_SET == 47
CMD_SOFT_RESET == 6
CMD_GET_SERIAL_ID == <<54, 130>>
SENSOR_MAKER == "Sensirion"
\* T_IDLE = 0.001 s, in milliseconds
T_IDLE_MS == 1
\* sleep(0.05), in milliseconds
SLEEP_50_MS == 50
\* sleep(1), in milliseconds
SLEEP_1_MS == 1000
\* the 1 in "time() - self.__tracker < 1", in milliseconds
SPACING_MS == 1000

Byte == 0..255
None == "None"

----------------------------------------------------------------------------
(* Python's integer operators on non-negative integers.                    *)

RECURSIVE BitXor(_, _)
\* a ^ b
BitXor(a, b) ==
    IF b = 0 THEN a
    ELSE IF a = 0 THEN b
    ELSE (((a % 2) + (b % 2)) % 2) + 2 * BitXor(a \div 2, b \div 2)

RECURSIVE BitAnd(_, _)
\* a & b
BitAnd(a, b) ==
    IF a = 0 \/ b = 0 THEN 0
    ELSE ((a % 2) * (b % 2)) + 2 * BitAnd(a \div 2, b \div 2)

RECURSIVE BitOr(_, _)
\* a | b
BitOr(a, b) ==
    IF b = 0 THEN a
    ELSE IF a = 0 THEN b
    ELSE (IF (a % 2) + (b % 2) > 0 THEN 1 ELSE 0) + 2 * BitOr(a \div 2, b \div 2)

\* a << n
Shl(a, n) == a * (2 ^ n)

\* a >> n
Shr(a, n) == a \div (2 ^ n)

----------------------------------------------------------------------------
(* Checksum engine: crc_calc, crc_check.                                   *)

\* "if crc & 0x80": bit 7 of the running value is set
HighBitSet(crc) == (crc \div 128) % 2 = 1

\* one pass of the inner loop body: the running value is never masked here
crc_shift_mut(crc) ==
    IF HighBitSet(crc) THEN BitXor(Shl(crc, 1), 48) ELSE Shl(crc, 1)

crc_shift(crc) ==
    IF HighBitSet(crc) THEN BitXor(Shl(crc, 1), 49) ELSE Shl(crc, 1)

RECURSIVE crc_bits(_, _)
\* "for _ in range(8, 0, -1)": n passes of the inner loop
crc_bits(crc, n) == IF n = 0 THEN crc ELSE crc_bits(crc_shift(crc), n - 1)

crc_raw_mut(data) == crc_bits(BitXor(crc_bits(BitXor(255, data[1]), 8), data[1]), 8)

\* the value of crc when the outer loop ends, before the final mask
crc_raw(data) == crc_bits(BitXor(crc_bits(BitXor(255, data[1]), 8), data[2]), 8)

\* "return (crc & 0x0000FF)": the low 8 bits
crc_calc(data) == crc_raw(data) % 256

crc_check(data, checksum) == crc_calc(data) = checksum

----------------------------------------------------------------------------
(* Strings built by format(): sequences of one-character strings.          *)

HexChars == <<"0", "1", "2", "3", "4", "5", "6", "7",
              "8", "9", "A", "B", "C", "D", "E", "F">>

DecChars == <<"0", "1", "2", "3", "4", "5", "6", "7", "8", "9">>

RECURSIVE ZeroPad(_, _)
\* the "0<width>" of a format spec: zeros on the left up to a minimum width
ZeroPad(chars, width) ==
    IF Len(chars) >= width THEN chars ELSE ZeroPad(<<"0">> \o chars, width)

RECURSIVE DecDigits(_)
DecDigits(n) ==
    IF n < 10 THEN <<DecChars[n + 1]>>
    ELSE DecDigits(n \div 10) \o <<DecChars[(n % 10) + 1]>>

\* f"{n}" for a non-negative int
FormatDec(n) == DecDigits(n)

----------------------------------------------------------------------------
(* Python ints wider than 32 bits (the 48-bit serial number): the value    *)
(* as its base-16 digits, most significant first, no leading zero digit    *)
(* (zero is the empty sequence).                                           *)

RECURSIVE BigOfInt(_)
BigOfInt(n) == IF n = 0 THEN <<>> ELSE BigOfInt(n \div 16) \o <<n % 16>>

RECURSIVE BigNorm(_)
BigNorm(x) == IF x # <<>> /\ Head(x) = 0 THEN BigNorm(Tail(x)) ELSE x

\* x << n, n a multiple of 4
BigShl(x, n) == IF x = <<>> THEN <<>> ELSE x \o [i \in 1..(n \div 4) |-> 0]

\* digit i of x counted from the least significant one (0 beyond its length)
BigDigit(x, i) == IF i <= Len(x) THEN x[Len(x) - i + 1] ELSE 0

\* x | y
BigOr(x, y) ==
    LET n == IF Len(x) >= Len(y) THEN Len(x) ELSE Len(y)
    IN  BigNorm([i \in 1..n |-> BitOr(BigDigit(x, n - i + 1), BigDigit(y, n - i + 1))])

\* "{:0<width>X}".format(x)
FormatHexUpper(x, width) ==
    ZeroPad(IF x = <<>> THEN <<"0">> ELSE [i \in 1..Len(x) |-> HexChars[x[i] + 1]], width)

HexCharsLower == <<"0", "1", "2", "3", "4", "5", "6", "7",
                   "8", "9", "a", "b", "c", "d", "e", "f">>

\* "{:0<width>x}".format(n) for a non-negative int n
FormatHexLower(n, width) ==
    LET x == BigOfInt(n)
    IN  ZeroPad(IF x = <<>> THEN <<"0">> ELSE [i \in 1..Len(x) |-> HexCharsLower[x[i] + 1]],
                width)

\* the value of one hexadecimal digit character
HexValue(c) == CHOOSE d \in 0..15 : HexCharsLower[d + 1] = c

RECURSIVE ParseHex(_)
\* int(chars, 16)
ParseHex(chars) ==
    IF Len(chars) = 1 THEN HexValue(chars[1])
    ELSE 16 * ParseHex(SubSeq(chars, 1, Len(chars) - 1)) + HexValue(chars[Len(chars)])

----------------------------------------------------------------------------
(* Command encoders.                                                       *)

abs_humidity_bytes_mut(v) ==
    LET abs_humi_hex == FormatHexLower(v, 4)
    IN  <<ParseHex(SubSeq(abs_humi_hex, 1, 2)), ParseHex(SubSeq(abs_humi_hex, 2, 3))>>

\* calculate_abs_humidity from v = int(abs_humi * 256) on: the "{:04x}" text
\* of v, cut into abs_humi_hex[:2] and abs_humi_hex[2:], each read back as a
\* hexadecimal number
abs_humidity_bytes(v) ==
    LET abs_humi_hex == FormatHexLower(v, 4)
    IN  <<ParseHex(SubSeq(abs_humi_hex, 1, 2)),
          ParseHex(SubSeq(abs_humi_hex, 3, Len(abs_humi_hex)))>>

\* set_abs_humidity_compensation: [CMD_SET_ABS_HUMI] + byte_list
\* + [self.crc_calc(byte_list)]
humidity_write_bytes(byte_list) ==
    <<CMD_SET_ABS_HUMI>> \o byte_list \o <<crc_calc(byte_list)>>

----------------------------------------------------------------------------
(* Reply decoders.                                                         *)

\* the minimum field width of "{:06X}"
serial_width == 6

\* get_serial_id: data[0] << 40 | data[1] << 32 | data[3] << 24 | data[4] << 16
\*                | data[6] << 8 | data[7], formatted "{:06X}"
serial_id_hex(data) ==
    FormatHexUpper(
        BigOr(BigOr(BigOr(BigOr(BigOr(BigShl(BigOfInt(data[1]), 40),
                                      BigShl(BigOfInt(data[2]), 32)),
                                BigShl(BigOfInt(data[4]), 24)),
                          BigShl(BigOfInt(data[5]), 16)),
                    BigShl(BigOfInt(data[7]), 8)),
              BigOfInt(data[8])),
        serial_width)

product_version_mut(byte_data) ==
    LET data == byte_data[2]
        version_major == Shr(BitAnd(data, 240), 4)
        version_minor == BitAnd(data, 15)
    IN  FormatDec(version_major) \o <<".">> \o FormatDec(version_minor)

\* get_product_version, from the 3 bytes read
product_version(byte_data) ==
    LET data == byte_data[2]
        version_major == Shr(BitAnd(data, 224), 5)
        version_minor == BitAnd(data, 31)
    IN  FormatDec(version_major) \o <<".">> \o FormatDec(version_minor)

\* get_product_type, from the 3 bytes read
product_type(byte_data) ==
    LET data == byte_data[1]
        product_type == Shr(BitAnd(data, 240), 4)
    IN  IF product_type = 0 THEN "SGP30" ELSE None

\* Measurement(name, unit, value)
Measurement(name, unit, value) == [name |-> name, unit |-> unit, value |-> value]

measurement_decode_mut(data, as_dict) ==
    LET co2 == BitOr(Shl(data[1], 8), data[2])
        tvoc == BitOr(Shl(data[4], 8), data[6])
    IN  [cls |-> IF as_dict THEN "dict" ELSE "SensorData",
         measurements |-> <<Measurement("co2", "ppm", co2),
                            Measurement("tvoc", "ppb", tvoc)>>]

\* get_measurement, from the 6 bytes read: round(x, 0) of an int is that int;
\* asdict() keeps the fields and turns the dataclasses into dicts
measurement_decode(data, as_dict) ==
    LET co2 == BitOr(Shl(data[1], 8), data[2])
        tvoc == BitOr(Shl(data[4], 8), data[5])
    IN  [cls |-> IF as_dict THEN "dict" ELSE "SensorData",
         measurements |-> <<Measurement("co2", "ppm", co2),
                            Measurement("tvoc", "ppb", tvoc)>>]

\* SensorInfo(maker, model, serial, version)
SensorInfo(maker, model, serial, version) ==
    [maker |-> maker, model |-> model, serial |-> serial, version |-> version]

----------------------------------------------------------------------------
(* The clock.  Every event happens on a tick; a sleep of d seconds returns *)
(* no earlier than d seconds after it began and may return later.          *)

\* a duration in milliseconds as whole ticks (rounded down: a lower bound)
ToTicks(ms) == (ms * TicksPerSecond) \div 1000

SECOND == ToTicks(1000)

\* time() when the session is constructed: the epoch clock is far past 1 s;
\* the smallest such value is the one closest to the spacing test's threshold
StartTime == SECOND

MaxNow == StartTime + Horizon * SECOND

\* positions in which the caller is inside sleep()
SleepPcs == {"iaq_init_sleep", "gm_spacing_sleep", "gm_settle_sleep",
             "serial_sleep", "type_sleep", "version_sleep",
             "baseline_sleep", "baseline_end_sleep", "humi_sleep"}

----------------------------------------------------------------------------
(* The bus (smbus2.SMBus) and what the sensor may answer.                  *)

\* one transfer handed to the bus: which SMBus method, the address, the
\* register / command byte, the bytes written, the number of bytes asked
\* for, and whether the transfer succeeded (FALSE: it raised OSError)
Transfer(op, addr, reg, data, n, ok) ==
    [op |-> op, addr |-> addr, reg |-> reg, data |-> data, n |-> n, ok |-> ok]

\* a 2-byte word followed by its checksum byte, right or corrupted
Frame(word, good) ==
    word \o <<IF good THEN crc_calc(word) ELSE BitXor(crc_calc(word), 1)>>

\* replies to Measure IAQ the session is exercised with
MeasureReplies ==
    { Frame(<<1, 244>>, TRUE) \o Frame(<<0, 100>>, TRUE),
      Frame(<<1, 244>>, FALSE) \o Frame(<<0, 100>>, TRUE),
      Frame(<<255, 255>>, TRUE) \o Frame(<<0, 0>>, FALSE) }

\* replies to Get serial ID the session is exercised with
SerialReplies ==
    { Frame(<<0, 0>>, TRUE) \o Frame(<<18, 52>>, TRUE) \o Frame(<<86, 120>>, TRUE),
      Frame(<<171, 205>>, TRUE) \o Frame(<<0, 1>>, TRUE) \o Frame(<<255, 0>>, TRUE) }

\* replies to Get IAQ baseline the session is exercised with
BaselineReplies ==
    { Frame(<<136, 18>>, TRUE) \o Frame(<<142, 37>>, TRUE),
      Frame(<<0, 0>>, TRUE) \o Frame(<<255, 255>>, FALSE) }

\* values of int(abs_humi * 256) the session is exercised with: 0 g/m3, the
\* byte boundaries, 25 C / 50 % (2939), 30 C / 80 % (6198), the largest 16-bit
\* word, and 80 C / 100 % (75321, more than 256 g/m3)
HumidityWords == {0, 255, 256, 2939, 6198, 65535, 75321}

\* replies to Get feature set the session is exercised with
FeatureReplies ==
    { Frame(<<0, 34>>, TRUE), Frame(<<16, 69>>, TRUE) }

\* no clock reading: the event has not happened
Never == 0 - 1

\* op: the method; start: time() when it was entered; mark: the length of
\* buslog then; slept: whether it slept for spacing; writes, tw: the Measure
\* IAQ writes it made that succeeded and the time of the last one; tr: the
\* time of its 6-byte read; t0: self.__tracker when it was entered; tmp: its
\* local variables
NoCall == [op |-> "none", start |-> 0, mark |-> 0, slept |-> FALSE,
           as_dict |-> FALSE, writes |-> 0, tw |-> Never, tr |-> Never,
           t0 |-> 0, tmp |-> <<>>]

NoRet == [kind |-> "none", val |-> None]

\* the call returned val
Return(val) == [kind |-> "return", val |-> val]

\* the call raised exc
Raise(exc) == [kind |-> "raise", val |-> exc]

\* the bookkeeping of a call that starts now
NewCall(op, as_dict, slept) ==
    [op |-> op, start |-> now, mark |-> Len(buslog), slept |-> slept,
     as_dict |-> as_dict, writes |-> 0, tw |-> Never, tr |-> Never,
     t0 |-> tracker, tmp |-> <<>>]

\* a public method of a constructed session is entered
Enter ==
    /\ pc = "idle"
    /\ ncalls < MaxCalls
    /\ ncalls' = ncalls + 1

WakeAt_mut(ms) == now

\* sleep(ms / 1000) begun now returns no earlier than this tick
WakeAt(ms) == now + ToTicks(ms)

SleepOver_mut == TRUE

\* the sleep in progress may return
SleepOver == now >= wake

----------------------------------------------------------------------------
(* Time.                                                                   *)

\* the clock advances while the caller sleeps or is between two calls
Tick ==
    /\ pc \in SleepPcs \cup {"idle"}
    /\ now < MaxNow
    /\ now' = now + 1
    /\ UNCHANGED <<tracker, bus, pc, wake, ret, buslog, call, ncalls, mwrites>>
    /\ UNCHANGED codecVars

----------------------------------------------------------------------------
(* __init__, iaq_init, soft_reset, close.                                  *)

\* __init__: SMBus(bus_no); FileNotFoundError ends the process
Open ==
    /\ pc = "new"
    /\ \/ /\ bus' = "open"
          /\ pc' = "probe"
          /\ ret' = ret
       \/ /\ bus' = bus
          /\ pc' = "exited"
          /\ ret' = Raise("SystemExit")
    /\ UNCHANGED <<now, tracker, wake, buslog, call, ncalls, mwrites>>
    /\ UNCHANGED codecVars

\* __init__: the probe read; OSError leads to self.close() and sys.exit(1)
Probe ==
    /\ pc = "probe"
    /\ \E ok \in BOOLEAN :
          /\ buslog' = Append(buslog, Transfer("read_byte_data", I2C_ADDRESS, 0, <<>>, 1, ok))
          /\ pc' = IF ok THEN "iaq_init" ELSE "soft_reset"
    /\ UNCHANGED <<now, tracker, bus, wake, ret, call, ncalls, mwrites>>
    /\ UNCHANGED codecVars

\* iaq_init, called by __init__: an OSError leaves __init__ uncaught
IaqInit ==
    /\ pc = "iaq_init"
    /\ \E ok \in BOOLEAN :
          /\ buslog' = Append(buslog, Transfer("write_i2c_block_data", I2C_ADDRESS,
                                               CMD_HEAD, <<CMD_IAQ_INIT>>, 0, ok))
          /\ IF ok
             THEN pc' = "iaq_init_sleep" /\ wake' = WakeAt(SLEEP_50_MS) /\ ret' = ret
             ELSE pc' = "exited" /\ wake' = wake /\ ret' = Raise("OSError")
    /\ UNCHANGED <<now, tracker, bus, call, ncalls, mwrites>>
    /\ UNCHANGED codecVars

\* iaq_init's sleep returns and __init__ with it: the session is ready
IaqInitWake ==
    /\ pc = "iaq_init_sleep"
    /\ SleepOver
    /\ pc' = "idle"
    /\ ret' = Return(None)
    /\ UNCHANGED <<now, tracker, bus, wake, buslog, call, ncalls, mwrites>>
    /\ UNCHANGED codecVars

\* the caller calls soft_reset()
CallSoftReset ==
    /\ Enter
    /\ call' = NewCall("soft_reset", FALSE, FALSE)
    /\ pc' = "soft_reset"
    /\ ret' = NoRet
    /\ UNCHANGED <<now, tracker, bus, wake, buslog, mwrites>>
    /\ UNCHANGED codecVars

\* the caller calls close()
CallClose ==
    /\ Enter
    /\ call' = NewCall("close", FALSE, FALSE)
    /\ pc' = "soft_reset"
    /\ ret' = NoRet
    /\ UNCHANGED <<now, tracker, bus, wake, buslog, mwrites>>
    /\ UNCHANGED codecVars

\* soft_reset: write_byte(CMD_HEAD, CMD_SOFT_RESET), on its own or as the
\* first statement of close(); an OSError propagates to whoever called
SoftReset ==
    /\ pc = "soft_reset"
    /\ \E ok \in BOOLEAN :
          /\ buslog' = Append(buslog, Transfer("write_byte", CMD_HEAD, None,
                                               <<CMD_SOFT_RESET>>, 0, ok))
          /\ IF ok
             THEN IF call.op = "soft_reset"
                  THEN pc' = "idle" /\ ret' = Return(None)
                  ELSE pc' = "bus_close" /\ ret' = ret
             ELSE IF call.op = "__init__"
                  THEN pc' = "exited" /\ ret' = Raise("OSError")
                  ELSE pc' = "idle" /\ ret' = Raise("OSError")
    /\ UNCHANGED <<now, tracker, bus, wake, call, ncalls, mwrites>>
    /\ UNCHANGED codecVars

\* close: self.__bus.close(); in __init__ it is followed by sys.exit(1)
BusClose ==
    /\ pc = "bus_close"
    /\ bus' = "closed"
    /\ buslog' = Append(buslog, Transfer("close", None, None, <<>>, 0, TRUE))
    /\ IF call.op = "__init__"
       THEN pc' = "exited" /\ ret' = Raise("SystemExit")
       ELSE pc' = "closed" /\ ret' = Return(None)
    /\ UNCHANGED <<now, tracker, wake, call, ncalls, mwrites>>
    /\ UNCHANGED codecVars

----------------------------------------------------------------------------
(* get_measurement.                                                        *)

\* the call and its spacing test: "if (time() - self.__tracker < 1): sleep(1)"
GetMeasurement ==
    /\ Enter
    /\ \E as_dict \in BOOLEAN :
          IF now - tracker < ToTicks(SPACING_MS)
          THEN /\ call' = NewCall("get_measurement", as_dict, TRUE)
               /\ pc' = "gm_spacing_sleep"
               /\ wake' = WakeAt(SLEEP_1_MS)
          ELSE /\ call' = NewCall("get_measurement", as_dict, FALSE)
               /\ pc' = "gm_write"
               /\ wake' = wake
    /\ ret' = NoRet
    /\ UNCHANGED <<now, tracker, bus, buslog, mwrites>>
    /\ UNCHANGED codecVars

\* the spacing sleep returns
GmSpacingWake ==
    /\ pc = "gm_spacing_sleep"
    /\ SleepOver
    /\ pc' = "gm_write"
    /\ UNCHANGED <<now, tracker, bus, wake, ret, buslog, call, ncalls, mwrites>>
    /\ UNCHANGED codecVars

\* the Measure IAQ command write, then sleep(1)
GmWrite ==
    /\ pc = "gm_write"
    /\ \E ok \in BOOLEAN :
          /\ buslog' = Append(buslog, Transfer("write_i2c_block_data", I2C_ADDRESS,
                                               CMD_HEAD, <<CMD_MEASURE_IAQ>>, 0, ok))
          /\ IF ok
             THEN /\ pc' = "gm_settle_sleep"
                  /\ wake' = WakeAt(SLEEP_1_MS)
                  /\ ret' = ret
                  /\ call' = [call EXCEPT !.writes = @ + 1, !.tw = now]
                  /\ mwrites' = <<mwrites[2], now>>
             ELSE /\ pc' = "idle"
                  /\ wake' = wake
                  /\ ret' = Raise("OSError")
                  /\ call' = call
                  /\ mwrites' = mwrites
    /\ UNCHANGED <<now, tracker, bus, ncalls>>
    /\ UNCHANGED codecVars

\* the settle sleep returns: the 6-byte read, "self.__tracker = time()", the
\* decoding and the return
GmRead ==
    /\ pc = "gm_settle_sleep"
    /\ SleepOver
    /\ \/ \E data \in MeasureReplies :
             /\ buslog' = Append(buslog, Transfer("read_i2c_block_data", I2C_ADDRESS, REG_BASE, <<>>, 6, TRUE))
             /\ tracker' = now
             /\ call' = [call EXCEPT !.tr = now, !.tmp = <<data>>]
             /\ ret' = Return(measurement_decode(data, call.as_dict))
       \/ /\ buslog' = Append(buslog, Transfer("read_i2c_block_data", I2C_ADDRESS, REG_BASE, <<>>, 6, FALSE))
          /\ tracker' = tracker
          /\ call' = [call EXCEPT !.tr = now]
          /\ ret' = Raise("OSError")
    /\ pc' = "idle"
    /\ UNCHANGED <<now, bus, wake, ncalls, mwrites>>
    /\ UNCHANGED codecVars

----------------------------------------------------------------------------
(* get_sensor_info: get_serial_id, get_product_type, get_product_version.  *)

InfoFails_mut ==
    /\ pc' = "idle"
    /\ ret' = Return(None)
    /\ wake' = wake
    /\ call' = call

\* a transfer of get_sensor_info or get_iaq_baseline raised OSError: the
\* call ends with it
InfoFails ==
    /\ pc' = "idle"
    /\ ret' = Raise("OSError")
    /\ wake' = wake
    /\ call' = call

\* a feature-set / serial command was written: the sleep that follows it
InfoSleeps(next, ms) ==
    /\ pc' = next
    /\ wake' = WakeAt(ms)
    /\ ret' = NoRet

\* the call, and get_serial_id's command write followed by sleep(T_IDLE)
GetSensorInfo ==
    /\ Enter
    /\ \E ok \in BOOLEAN :
          /\ buslog' = Append(buslog, Transfer("write_i2c_block_data", I2C_ADDRESS,
                                               CMD_GET_SERIAL_ID[1],
                                               <<CMD_GET_SERIAL_ID[2]>>, 0, ok))
          /\ IF ok
             THEN /\ InfoSleeps("serial_sleep", T_IDLE_MS)
                  /\ call' = NewCall("get_sensor_info", FALSE, FALSE)
             ELSE /\ pc' = "idle"
                  /\ ret' = Raise("OSError")
                  /\ wake' = wake
                  /\ call' = NewCall("get_sensor_info", FALSE, FALSE)
    /\ UNCHANGED <<now, tracker, bus, mwrites>>
    /\ UNCHANGED codecVars

\* get_serial_id: the 9-byte read and the formatting of the serial number
SerialRead ==
    /\ pc = "serial_sleep"
    /\ SleepOver
    /\ \/ \E data \in SerialReplies :
             /\ buslog' = Append(buslog, Transfer("read_i2c_block_data", I2C_ADDRESS, REG_BASE, <<>>, 9, TRUE))
             /\ call' = [call EXCEPT !.tmp = <<serial_id_hex(data)>>]
             /\ pc' = "type_write"
             /\ UNCHANGED <<wake, ret, mwrites>>
       \/ /\ buslog' = Append(buslog, Transfer("read_i2c_block_data", I2C_ADDRESS, REG_BASE, <<>>, 9, FALSE))
          /\ InfoFails
    /\ UNCHANGED <<now, tracker, bus, ncalls, mwrites>>
    /\ UNCHANGED codecVars

\* get_product_type: the Get feature set command write, then sleep(0.05)
TypeWrite ==
    /\ pc = "type_write"
    /\ \E ok \in BOOLEAN :
          /\ buslog' = Append(buslog, Transfer("write_i2c_block_data", I2C_ADDRESS,
                                               CMD_HEAD, <<CMD_GET_FEATURE_SET>>, 0, ok))
          /\ IF ok
             THEN InfoSleeps("type_sleep", SLEEP_50_MS) /\ call' = call
             ELSE InfoFails
    /\ UNCHANGED <<now, tracker, bus, ncalls, mwrites>>
    /\ UNCHANGED codecVars

\* get_product_type: the 3-byte read and the decoding of the product type
TypeRead ==
    /\ pc = "type_sleep"
    /\ SleepOver
    /\ \/ \E byte_data \in FeatureReplies :
             /\ buslog' = Append(buslog, Transfer("read_i2c_block_data", I2C_ADDRESS, REG_BASE, <<>>, 3, TRUE))
             /\ call' = [call EXCEPT !.tmp = Append(@, product_type(byte_data))]
             /\ pc' = "version_write"
             /\ UNCHANGED <<wake, ret, mwrites>>
       \/ /\ buslog' = Append(buslog, Transfer("read_i2c_block_data", I2C_ADDRESS, REG_BASE, <<>>, 3, FALSE))
          /\ InfoFails
    /\ UNCHANGED <<now, tracker, bus, ncalls, mwrites>>
    /\ UNCHANGED codecVars

\* get_product_version: the Get feature set command write, then sleep(0.05)
VersionWrite ==
    /\ pc = "version_write"
    /\ \E ok \in BOOLEAN :
          /\ buslog' = Append(buslog, Transfer("write_i2c_block_data", I2C_ADDRESS,
                                               CMD_HEAD, <<CMD_GET_FEATURE_SET>>, 0, ok))
          /\ IF ok
             THEN InfoSleeps("version_sleep", SLEEP_50_MS) /\ call' = call
             ELSE InfoFails
    /\ UNCHANGED <<now, tracker, bus, ncalls, mwrites>>
    /\ UNCHANGED codecVars

\* get_product_version: the 3-byte read, the decoding of the version, and
\* get_sensor_info's return of SensorInfo(maker, type, serial, version)
VersionRead ==
    /\ pc = "version_sleep"
    /\ SleepOver
    /\ \/ \E byte_data \in FeatureReplies :
             /\ buslog' = Append(buslog, Transfer("read_i2c_block_data", I2C_ADDRESS, REG_BASE, <<>>, 3, TRUE))
             /\ ret' = Return(SensorInfo(SENSOR_MAKER, call.tmp[2], call.tmp[1],
                                         product_version(byte_data)))
             /\ pc' = "idle"
             /\ UNCHANGED <<wake, call, mwrites>>
       \/ /\ buslog' = Append(buslog, Transfer("read_i2c_block_data", I2C_ADDRESS, REG_BASE, <<>>, 3, FALSE))
          /\ InfoFails
    /\ UNCHANGED <<now, tracker, bus, ncalls, mwrites>>
    /\ UNCHANGED codecVars

----------------------------------------------------------------------------
(* get_iaq_baseline.                                                       *)

\* the call, and the Get IAQ baseline command write followed by sleep(0.05)
GetIaqBaseline ==
    /\ Enter
    /\ \E ok \in BOOLEAN :
          /\ buslog' = Append(buslog, Transfer("write_i2c_block_data", I2C_ADDRESS,
                                               CMD_HEAD, <<CMD_GET_IAQ_BASELINE>>, 0, ok))
          /\ call' = NewCall("get_iaq_baseline", FALSE, FALSE)
          /\ IF ok
             THEN InfoSleeps("baseline_sleep", SLEEP_50_MS)
             ELSE pc' = "idle" /\ ret' = Raise("OSError") /\ wake' = wake
    /\ UNCHANGED <<now, tracker, bus, mwrites>>
    /\ UNCHANGED codecVars

\* the 6-byte read into the local "data", then the second sleep(0.05)
BaselineRead ==
    /\ pc = "baseline_sleep"
    /\ SleepOver
    /\ \/ \E data \in BaselineReplies :
             /\ buslog' = Append(buslog, Transfer("read_i2c_block_data", I2C_ADDRESS,
                                                  REG_BASE, <<>>, 6, TRUE))
             /\ call' = [call EXCEPT !.tmp = <<data>>]
             /\ InfoSleeps("baseline_end_sleep", SLEEP_50_MS)
       \/ /\ buslog' = Append(buslog, Transfer("read_i2c_block_data", I2C_ADDRESS,
                                               REG_BASE, <<>>, 6, FALSE))
          /\ InfoFails
    /\ UNCHANGED <<now, tracker, bus, ncalls, mwrites>>
    /\ UNCHANGED codecVars

\* the function body ends without a return statement: the call returns None
BaselineReturn ==
    /\ pc = "baseline_end_sleep"
    /\ SleepOver
    /\ pc' = "idle"
    /\ ret' = Return(None)
    /\ UNCHANGED <<now, tracker, bus, wake, buslog, call, ncalls, mwrites>>
    /\ UNCHANGED codecVars

----------------------------------------------------------------------------
(* set_abs_humidity_compensation.                                          *)

\* the calls the session is exercised with: the word v of the arguments, and
\* the byte_list and write_bytes computed from it
HumidityCalls ==
    { [v |-> v, write_bytes |-> humidity_write_bytes(abs_humidity_bytes(v))] :
        v \in HumidityWords }

\* the call with temp and humi for which int(abs_humi * 256) is v, and the
\* Set absolute humidity command write followed by sleep(0.05)
SetAbsHumidityCompensation ==
    /\ Enter
    /\ \E c \in HumidityCalls, ok \in BOOLEAN :
          /\ buslog' = Append(buslog,
                              Transfer("write_i2c_block_data", I2C_ADDRESS, CMD_HEAD,
                                       c.write_bytes, 0, ok))
          /\ call' = [NewCall("set_abs_humidity_compensation", FALSE, FALSE)
                        EXCEPT !.tmp = <<c.v>>]
          /\ IF ok
             THEN InfoSleeps("humi_sleep", SLEEP_50_MS)
             ELSE pc' = "idle" /\ ret' = Raise("OSError") /\ wake' = wake
    /\ UNCHANGED <<now, tracker, bus, mwrites>>
    /\ UNCHANGED codecVars

\* the sleep returns and the call with it
HumidityReturn ==
    /\ pc = "humi_sleep"
    /\ SleepOver
    /\ pc' = "idle"
    /\ ret' = Return(None)
    /\ UNCHANGED <<now, tracker, bus, wake, buslog, call, ncalls, mwrites>>
    /\ UNCHANGED codecVars

----------------------------------------------------------------------------
(* The session.                                                            *)

\* __init__ is entered: "self.__tracker = 0", "self.__bus = None"
Init ==
    /\ now = StartTime
    /\ tracker = 0
    /\ bus = "none"
    /\ pc = "new"
    /\ wake = 0
    /\ ret = NoRet
    /\ buslog = <<>>
    /\ call = [NoCall EXCEPT !.op = "__init__", !.start = StartTime]
    /\ ncalls = 0
    /\ mwrites = <<Never, Never>>
    /\ fn = "none"
    /\ arg = <<>>
    /\ out = None

Next ==
    \/ Tick
    \/ Open
    \/ Probe
    \/ IaqInit
    \/ IaqInitWake
    \/ CallSoftReset
    \/ CallClose
    \/ SoftReset
    \/ BusClose
    \/ GetMeasurement
    \/ GmSpacingWake
    \/ GmWrite
    \/ GmRead
    \/ GetSensorInfo
    \/ SerialRead
    \/ TypeWrite
    \/ TypeRead
    \/ VersionWrite
    \/ VersionRead
    \/ GetIaqBaseline
    \/ BaselineRead
    \/ BaselineReturn
    \/ SetAbsHumidityCompensation
    \/ HumidityReturn

Spec == Init /\ [][Next]_vars

----------------------------------------------------------------------------
(* The checksum engine on its own: crc_calc applied to every 2-byte input. *)

\* the session's variables, unused by SpecCrc and SpecCodec
NoSession ==
    /\ now = StartTime
    /\ tracker = 0
    /\ bus = "none"
    /\ pc = "codec"
    /\ wake = 0
    /\ ret = NoRet
    /\ buslog = <<>>
    /\ call = NoCall
    /\ ncalls = 0
    /\ mwrites = <<Never, Never>>

InitCrc ==
    /\ NoSession
    /\ fn = "none"
    /\ arg \in Byte \X Byte
    /\ out = None

\* crc_calc(data)
CrcCalc ==
    /\ fn = "none"
    /\ Len(arg) = 2
    /\ fn' = "crc_calc"
    /\ out' = crc_calc(arg)
    /\ UNCHANGED arg
    /\ UNCHANGED sessionVars

NextCrc == CrcCalc

SpecCrc == InitCrc /\ [][NextCrc]_vars

----------------------------------------------------------------------------
(* The reply decoders on their own, on replies drawn from bounded sets.    *)

\* bytes the measurement words are built from
MeasureBytes == {0, 1, 100, 128, 244, 255}

\* bytes the serial-number words are built from
SerialBytes == {0, 10, 171, 255}

\* 6-byte replies: two words, each with a right or a corrupted checksum
MeasureInputs(B) ==
    { Frame(<<b0, b1>>, g1) \o Frame(<<b3, b4>>, g2) :
        <<b0, b1, b3, b4>> \in B \X B \X B \X B,
        g1 \in BOOLEAN, g2 \in BOOLEAN }

\* 9-byte replies: three words with their checksums
SerialInputs(B) ==
    { Frame(<<h0, l0>>, TRUE) \o Frame(<<h1, l1>>, TRUE) \o Frame(<<h2, l2>>, TRUE) :
        <<h0, l0, h1>> \in B \X B \X B, <<l1, h2, l2>> \in B \X B \X B }

\* 3-byte replies: every word, with its checksum
FeatureInputs(B) == { Frame(w, TRUE) : w \in B \X B }

InitCodec ==
    /\ NoSession
    /\ fn = "none"
    /\ arg \in MeasureInputs(MeasureBytes) \cup SerialInputs(SerialBytes)
                \cup FeatureInputs(Byte)
    /\ out = None

\* get_measurement's decoding of the 6 bytes read
DecodeMeasurement ==
    /\ fn = "none"
    /\ Len(arg) = 6
    /\ \E as_dict \in BOOLEAN :
          /\ fn' = "get_measurement"
          /\ out' = measurement_decode(arg, as_dict)
    /\ UNCHANGED arg
    /\ UNCHANGED sessionVars

\* get_serial_id's decoding of the 9 bytes read
DecodeSerial ==
    /\ fn = "none"
    /\ Len(arg) = 9
    /\ fn' = "get_serial_id"
    /\ out' = serial_id_hex(arg)
    /\ UNCHANGED arg
    /\ UNCHANGED sessionVars

\* get_product_type's decoding of the 3 bytes read
DecodeType ==
    /\ fn = "none"
    /\ Len(arg) = 3
    /\ fn' = "get_product_type"
    /\ out' = product_type(arg)
    /\ UNCHANGED arg
    /\ UNCHANGED sessionVars

\* get_product_version's decoding of the 3 bytes read
DecodeVersion ==
    /\ fn = "none"
    /\ Len(arg) = 3
    /\ fn' = "get_product_version"
    /\ out' = product_version(arg)
    /\ UNCHANGED arg
    /\ UNCHANGED sessionVars

NextCodec ==
    \/ DecodeMeasurement
    \/ DecodeSerial
    \/ DecodeType
    \/ DecodeVersion

SpecCodec == InitCodec /\ [][NextCodec]_vars

----------------------------------------------------------------------------
(* Properties of the session's timing (checked under Spec).                *)

\* a transfer that writes the Measure IAQ command (header 0x20, opcode 0x08)
IsMeasureWrite(x) ==
    /\ x.op = "write_i2c_block_data"
    /\ x.addr = 88
    /\ x.reg = 32
    /\ x.data = <<8>>

\* the transfers of the call in progress (or of the last one)
CallLog == SubSeq(buslog, call.mark + 1, Len(buslog))

\* the time of the last Measure IAQ write made before the current call's own
WriteBeforeCall == IF call.writes = 0 THEN mwrites[2] ELSE mwrites[1]

\* C1: any two consecutive Measure IAQ command writes of a session are at
\* least 1 second apart; and a get_measurement call that starts e < 1 s after
\* the previous Measure IAQ write makes its own write no earlier than 1 s - e
\* after it started.
C1_WritesOneSecondApart ==
    /\ mwrites[1] # Never => mwrites[2] - mwrites[1] >= TicksPerSecond
    /\ ( /\ call.op = "get_measurement"
         /\ call.writes > 0
         /\ WriteBeforeCall # Never
         /\ call.start - WriteBeforeCall < TicksPerSecond )
       => call.tw - call.start >= TicksPerSecond - (call.start - WriteBeforeCall)

\* two get_measurement calls back to back: the second one found the tracker
\* less than a second old, slept, and then wrote its command
C1_Witness ==
    /\ call.op = "get_measurement"
    /\ call.slept
    /\ call.writes = 1
    /\ mwrites[1] # Never
    /\ call.start - tracker < TicksPerSecond

\* C2: a get_measurement call that starts more than 1 second after the
\* previous Measure IAQ write, or before any such write, does not sleep for
\* spacing.
C2_LateCallNotDelayed ==
    ( /\ call.op = "get_measurement"
      /\ \/ WriteBeforeCall = Never
         \/ call.start - WriteBeforeCall > TicksPerSecond )
    => ~call.slept

\* C3: the stored timestamp is the time of the most recent Measure IAQ write,
\* or "never issued" (0): it is set right after the command write, before the
\* settle wait and the read, whether or not the read then succeeds.
C3_TrackerIsLastWrite ==
    tracker = (IF mwrites[2] = Never THEN 0 ELSE mwrites[2])

\* C4: a get_measurement call makes at most one Measure IAQ write, and its
\* 6-byte read comes only after that write succeeded and at least the settle
\* delay (1 s) later.
C4_WriteWaitRead ==
    call.op = "get_measurement" =>
        /\ Cardinality({i \in DOMAIN CallLog : IsMeasureWrite(CallLog[i])}) <= 1
        /\ call.writes <= 1
        /\ \A j \in DOMAIN CallLog :
              (CallLog[j].op = "read_i2c_block_data" /\ CallLog[j].n = 6)
              => \E i \in 1..(j - 1) : IsMeasureWrite(CallLog[i]) /\ CallLog[i].ok
        /\ call.tr # Never =>
              /\ call.writes = 1
              /\ call.tw # Never
              /\ call.tr - call.tw >= TicksPerSecond

\* a get_measurement call that wrote, waited, read and returned
C4_Witness ==
    /\ call.op = "get_measurement"
    /\ call.writes = 1
    /\ call.tr # Never
    /\ ret.kind = "return"
    /\ Len(CallLog) = 2

\* C6: when a checksum byte of the 6-byte reply disagrees with crc_calc of
\* its word, get_measurement raises a checksum-mismatch error and returns no
\* measurement built from the words read.
C6_ChecksumMismatchSurfaced ==
    ( /\ call.op = "get_measurement"
      /\ pc = "idle"
      /\ call.tmp # <<>> )
    => LET data == call.tmp[1]
           sound == /\ crc_check(<<data[1], data[2]>>, data[3])
                    /\ crc_check(<<data[4], data[5]>>, data[6])
       IN  /\ ret.kind = "return" => sound
           /\ ~sound => ret = Raise("ChecksumMismatch")

----------------------------------------------------------------------------
(* Properties of the checksum engine (checked under SpecCrc).              *)

\* the reference CRC-8 step: the register is kept to 8 bits on every shift
RefShift(c) ==
    IF c >= 128 THEN BitXor((2 * c) % 256, 49) ELSE (2 * c) % 256

RefByte(c) ==
    RefShift(RefShift(RefShift(RefShift(RefShift(RefShift(RefShift(RefShift(c))))))))

\* CRC-8, initial value 0xFF, polynomial 0x31, MSB first, no final XOR
RefCrc8(data) == RefByte(BitXor(RefByte(BitXor(255, data[1])), data[2]))

\* C7: for every pair of bytes crc_calc returns a byte, equal to the
\* reference CRC-8 (init 0xFF, poly 0x31, MSB first, no final XOR) whose
\* register is masked to 8 bits after every shift; crc_calc([0xBE, 0xEF]) is
\* 0x92.
C7_CrcIsReferenceCrc8 ==
    fn = "crc_calc" =>
        /\ out \in Byte
        /\ out = RefCrc8(arg)
        /\ arg = <<190, 239>> => out = 146

\* the datasheet vector, on which the unmasked running value outgrew 8 bits
C7_Witness ==
    /\ fn = "crc_calc"
    /\ arg = <<190, 239>>
    /\ out = 146
    /\ crc_raw(arg) > 255

\* data with bit k (0..15) flipped
FlipBit(data, k) ==
    IF k < 8 THEN <<BitXor(data[1], 2 ^ k), data[2]>>
    ELSE <<data[1], BitXor(data[2], 2 ^ (k - 8))>>

\* C8: for every 2-byte input and each of its 16 single-bit flips, the
\* checksum of the flipped input differs from that of the original:
\* crc_check(flipped, crc_calc(original)) is false.
C8_SingleBitFlipsDetected ==
    fn = "crc_calc" => \A k \in 0..15 : ~crc_check(FlipBit(arg, k), out)

\* an input whose checksum was computed and one flip of it that is rejected
C8_Witness ==
    /\ fn = "crc_calc"
    /\ arg = <<1, 244>>
    /\ crc_check(arg, out)
    /\ ~crc_check(FlipBit(arg, 15), out)
    /\ ~crc_check(FlipBit(arg, 0), out)

----------------------------------------------------------------------------
(* Properties of the decoders (checked under SpecCodec).                   *)

\* C5: for every 6-byte reply get_measurement returns exactly two
\* measurements, "co2" in "ppm" with value b0*256 + b1 and then "tvoc" in
\* "ppb" with value b3*256 + b4, both in 0..65535; the reply
\* [0x01, 0xF4, crc, 0x00, 0x64, crc] gives 500 ppm and 100 ppb.
C5_MeasurementDecoded ==
    fn = "get_measurement" =>
        /\ Len(out.measurements) = 2
        /\ out.measurements[1] =
              [name |-> "co2", unit |-> "ppm", value |-> arg[1] * 256 + arg[2]]
        /\ out.measurements[2] =
              [name |-> "tvoc", unit |-> "ppb", value |-> arg[4] * 256 + arg[5]]
        /\ out.measurements[1].value \in 0..65535
        /\ out.measurements[2].value \in 0..65535
        /\ (arg[1] = 1 /\ arg[2] = 244 /\ arg[4] = 0 /\ arg[5] = 100)
           => (out.measurements[1].value = 500 /\ out.measurements[2].value = 100)

\* the reply of 500 ppm and 100 ppb, with right checksums, decoded
C5_Witness ==
    /\ fn = "get_measurement"
    /\ arg = <<1, 244, crc_calc(<<1, 244>>), 0, 100, crc_calc(<<0, 100>>)>>
    /\ out.measurements[1].value = 500
    /\ out.measurements[2].value = 100

\* the two uppercase hexadecimal digits of a byte
HexByte(b) == <<HexChars[(b \div 16) + 1], HexChars[(b % 16) + 1]>>

\* C9: for every 9-byte reply [h0,l0,c0,h1,l1,c1,h2,l2,c2] get_serial_id
\* returns exactly 12 uppercase hexadecimal digits: those of h0, l0, h1, l1,
\* h2, l2 in this order, leading zeros included.
C9_SerialIsTwelveDigits ==
    fn = "get_serial_id" =>
        /\ Len(out) = 12
        /\ out = HexByte(arg[1]) \o HexByte(arg[2]) \o HexByte(arg[4])
                 \o HexByte(arg[5]) \o HexByte(arg[7]) \o HexByte(arg[8])

\* the decimal digits of a number below 100
DecBelow100(n) ==
    IF n < 10 THEN <<DecChars[n + 1]>>
    ELSE <<DecChars[(n \div 10) + 1], DecChars[(n % 10) + 1]>>

\* C10: for every 3-byte feature-set reply the model is "SGP30" exactly when
\* the high nibble of byte 0 is 0, and None otherwise; the version is
\* "{major}.{minor}" with major = byte1 div 32 and minor = byte1 mod 32;
\* version byte 0b01000101 gives "2.5".
C10_FeatureSetDecoded ==
    /\ fn = "get_product_type" =>
          /\ out \in {"SGP30", None}
          /\ out = "SGP30" <=> arg[1] \div 16 = 0
    /\ fn = "get_product_version" =>
          /\ out = DecBelow100(arg[2] \div 32) \o <<".">> \o DecBelow100(arg[2] % 32)
          /\ arg[2] = 69 => out = <<"2", ".", "5">>

\* version byte 0b01000101 decoded to "2.5"
C10_Witness ==
    /\ fn = "get_product_version"
    /\ arg[2] = 69
    /\ out = <<"2", ".", "5">>

\* C11: get_iaq_baseline writes Get IAQ baseline (header 0x20, opcode 0x15),
\* reads 6 bytes, and returns exactly the 6 bytes it read.
C11_BaselineReturnsBytes ==
    ( /\ call.op = "get_iaq_baseline"
      /\ pc = "idle"
      /\ ret.kind = "return" )
    => /\ Len(CallLog) = 2
       /\ CallLog[1].op = "write_i2c_block_data"
       /\ CallLog[1].reg = 32
       /\ CallLog[1].data = <<21>>
       /\ CallLog[2].op = "read_i2c_block_data"
       /\ CallLog[2].n = 6
       /\ ret.val # None
       /\ ret.val = call.tmp[1]

\* the construction probe read was made and failed
ProbeFailed ==
    /\ Len(buslog) >= 1
    /\ buslog[1].op = "read_byte_data"
    /\ ~buslog[1].ok

\* x is an Init IAQ command write
IsInitWrite(x) ==
    /\ x.op = "write_i2c_block_data"
    /\ x.addr = 88
    /\ x.reg = 32
    /\ x.data = <<3>>

\* C12: when the construction probe read fails, construction aborts with the
\* bus handle released, whatever the bus does afterwards, and no Init IAQ or
\* Measure IAQ command is ever written.
C12_FailedProbeReleasesBus ==
    ProbeFailed
    => /\ pc = "exited" => bus = "closed"
       /\ \A i \in 1..Len(buslog) :
             ~IsInitWrite(buslog[i]) /\ ~IsMeasureWrite(buslog[i])

\* the methods of C13
PropagatingOps == {"get_measurement", "get_sensor_info", "get_iaq_baseline", "soft_reset"}

\* C13: on a constructed driver, a bus write or read that fails during
\* get_measurement, get_sensor_info, get_iaq_baseline or soft_reset ends the
\* call with the bus error: the call returns no value, and makes no further
\* transfer (the failed one is not retried).
C13_BusErrorsPropagate ==
    call.op \in PropagatingOps
    => \A i \in 1..Len(CallLog) :
          ~CallLog[i].ok
          => /\ i = Len(CallLog)
             /\ pc = "idle"
             /\ ret = Raise("OSError")

\* a get_measurement whose 6-byte read failed, then a get_sensor_info whose
\* product-type read failed after three successful transfers
C13_Witness ==
    /\ call.op = "get_sensor_info"
    /\ Len(CallLog) = 4
    /\ ~CallLog[4].ok
    /\ ret = Raise("OSError")
    /\ \E i \in 1..call.mark :
          /\ IsMeasureWrite(buslog[i])
          /\ buslog[i + 1].op = "read_i2c_block_data"
          /\ ~buslog[i + 1].ok

\* the command writes of get_sensor_info, in order: (register, data)
InfoWrites == << <<54, <<130>>>>, <<32, <<47>>>>, <<32, <<47>>>> >>

\* C14: get_sensor_info leaves the measurement timestamp as it found it and
\* writes no Measure IAQ command: its writes are the serial-ID query
\* (0x36, 0x82) and then two feature-set queries (0x20, 0x2F), each followed
\* by a read; and whether a get_measurement call makes the spacing sleep
\* depends only on the timestamp and the time at which it is called.
C14_SensorInfoKeepsTimestamp ==
    /\ call.op = "get_sensor_info"
       => /\ tracker = call.t0
          /\ Len(CallLog) <= 6
          /\ \A i \in 1..Len(CallLog) :
                /\ ~IsMeasureWrite(CallLog[i])
                /\ CallLog[i].addr = 88
                /\ IF i % 2 = 1
                   THEN /\ CallLog[i].op = "write_i2c_block_data"
                        /\ CallLog[i].reg = InfoWrites[(i + 1) \div 2][1]
                        /\ CallLog[i].data = InfoWrites[(i + 1) \div 2][2]
                   ELSE CallLog[i].op = "read_i2c_block_data"
    /\ call.op = "get_measurement"
       => (call.slept <=> call.start - call.t0 < TicksPerSecond)

\* a get_sensor_info call that returned after all six transfers, made after
\* a measurement had set the timestamp
C14_Witness ==
    /\ call.op = "get_sensor_info"
    /\ pc = "idle"
    /\ ret.kind = "return"
    /\ Len(CallLog) = 6
    /\ tracker > 0

\* C15: close performs the soft reset, a single write of the reset opcode
\* 0x06 to the I2C general-call address 0x00 with no read, and only then
\* releases the bus handle.
C15_CloseResetsByGeneralCall ==
    ( /\ call.op = "close"
      /\ Len(CallLog) >= 1 )
    => /\ CallLog[1].op = "write_byte"
       /\ CallLog[1].addr = 0
       /\ CallLog[1].data = <<6>>
       /\ \A i \in 2..Len(CallLog) : CallLog[i].op = "close"
       /\ Len(CallLog) <= 2
       /\ bus = "closed" <=> Len(CallLog) = 2

\* C16: when get_measurement starts e < 1 s after the timestamp of the last
\* measurement, its spacing sleep lasts exactly the remaining 1 s - e.
C16_SleepsRemainingTime ==
    ( /\ call.op = "get_measurement"
      /\ pc = "gm_spacing_sleep" )
    => wake - call.start = TicksPerSecond - (call.start - call.t0)

\* construction has succeeded
Constructed == pc = "idle" \/ ncalls > 0

\* C17: a successful construction writes Init IAQ (header 0x20, opcode 0x03)
\* exactly once, right after the probe read and before any other command; no
\* method call writes it again, so every Measure IAQ write has exactly one
\* Init IAQ write before it.
C17_InitIaqWrittenOnce ==
    /\ \A i \in 1..Len(buslog) :
          IsInitWrite(buslog[i])
          => /\ i = 2
             /\ buslog[1].op = "read_byte_data"
             /\ buslog[1].ok
    /\ Constructed
       => /\ Len(buslog) >= 2
          /\ IsInitWrite(buslog[2])
          /\ buslog[2].ok
    /\ \A i \in 1..Len(buslog) :
          IsMeasureWrite(buslog[i])
          => Cardinality({j \in 1..(i - 1) : IsInitWrite(buslog[j])}) = 1

\* a Measure IAQ write made by the second call of a constructed session,
\* whose first call was of another method that wrote a command
C17_Witness ==
    /\ Constructed
    /\ ncalls = 2
    /\ call.mark > 2
    /\ call.writes = 1
    /\ IsMeasureWrite(buslog[Len(buslog)])
    /\ buslog[3].op = "write_i2c_block_data"
    /\ ~IsMeasureWrite(buslog[3])

\* the opcodes of the commands that carry no payload: Init IAQ, Measure IAQ,
\* Get IAQ baseline, Get feature set, and the second byte of Get serial ID
PayloadFreeOpcodes == {3, 8, 21, 47, 130}

\* the largest 16-bit humidity word
MaxHumidityWord == 256 * 256 - 1

\* C18: for every humidity word v = trunc(abs_humidity * 256) in 0..65535,
\* calculate_abs_humidity yields [v div 256, v mod 256] (a property of the
\* function alone, evaluated for all words in the initial state), and
\* set_abs_humidity_compensation writes, under header 0x20, the bytes
\* [0x61, hi, lo, crc_calc([hi, lo])]; every other command write carries its
\* opcode only, with no checksum byte.
C18_HumidityWordEncoded ==
    /\ pc = "new"
       => \A v \in 0..MaxHumidityWord :
             abs_humidity_bytes(v) = <<v \div 256, v % 256>>
    /\ \A i \in 1..Len(buslog) :
          buslog[i].op = "write_i2c_block_data"
          => \/ /\ Len(buslog[i].data) = 1
                /\ buslog[i].data[1] \in PayloadFreeOpcodes
             \/ /\ Len(buslog[i].data) = 4
                /\ buslog[i].reg = 32
                /\ buslog[i].data[1] = 97
                /\ buslog[i].data[4] = crc_calc(<<buslog[i].data[2], buslog[i].data[3]>>)
    /\ ( /\ call.op = "set_abs_humidity_compensation"
         /\ call.tmp[1] <= MaxHumidityWord )
       => LET v == call.tmp[1]
          IN  /\ Len(CallLog) = 1
              /\ CallLog[1].op = "write_i2c_block_data"
              /\ CallLog[1].addr = 88
              /\ CallLog[1].reg = 32
              /\ CallLog[1].data = <<97, v \div 256, v % 256,
                                     crc_calc(<<v \div 256, v % 256>>)>>

\* set_abs_humidity_compensation for 25 C and 50 % (11.48 g/m3, word 2939 =
\* 0x0B7B) has written its command and returned
C18_Witness ==
    /\ call.op = "set_abs_humidity_compensation"
    /\ call.tmp = <<2939>>
    /\ pc = "idle"
    /\ ret = Return(None)
    /\ CallLog[1].data = <<97, 11, 123, 137>>

\* C19: every byte handed to the bus in a write is in 0..255, whatever the
\* humidity word is.
C19_WrittenBytesAreBytes ==
    \A i \in 1..Len(buslog) :
       buslog[i].op \in {"write_i2c_block_data", "write_byte"}
       => \A k \in 1..Len(buslog[i].data) : buslog[i].data[k] \in Byte

\* C20: no call of close on an open session ends, normally or with an error,
\* with the bus handle still open.
C20_CloseAlwaysReleases ==
    ( /\ call.op = "close"
      /\ pc \in {"idle", "closed"} )
    => bus = "closed"

====
